---- MODULE Spec2Model ----
(***************************************************************************)
(* Model of streamlit_app.py, the multi-chain balance validator.           *)
(*                                                                         *)
(* Python strings are sequences of one-character strings.  A Python value  *)
(* that may be None is wrapped: None is the empty tuple and Some(v) the    *)
(* one-element tuple <<v>>.                                                *)
(***************************************************************************)
EXTENDS Integers, Sequences, FiniteSets, TLC

VARIABLES
    \* ---- _is_native call ------------------------------------------------
    token_address,     \* the argument (optional string)
    native_out,        \* None before the call, Some(result) after
    \* ---- identify_chain call --------------------------------------------
    chain_value,       \* the argument (optional string)
    chain_case,        \* how the argument was built: [key, pert]
    chain_out,         \* None before the call, Some(returned key or None)
    \* ---- find_block_by_timestamp call -----------------------------------
    chain_ts,          \* block timestamps of the node, block b at index b+1
    target_ts,         \* None before the call, Some(target) after
    fb_out,            \* the returned block number (meaningful after call)
    \* ---- one run of the script -----------------------------------------
    configured,        \* keys of configured_chains
    use_manual_chain,  \* the sidebar checkbox
    manual_chain,      \* None or Some(key) chosen in the sidebar
    chain_col,         \* cmap.chain is mapped to a column
    token_col,         \* cmap.token_contract is mapped to a column
    validation_mode,   \* "Current Balances" or "Historical Balances"
    explicit_blk,      \* None or Some(block number typed in the sidebar)
    utc_ts,            \* the as-of instant of Historical mode
    df_chain,          \* the chain column of df, one optional label per row
    chain_ids,         \* df['_chain_id'], one optional key per row
    pc,                \* "group", "loop", "done" or "stopped" (st.stop)
    res,               \* the list res
    nodes,             \* per chain key, the block timestamps of its node
    fb_cache,          \* st.cache_data of find_block_by_timestamp
    dec_cache,         \* st.cache_data of fetch_token_decimals
    log                \* per processed row: functions invoked, RPC methods
                       \* called and the block the balance was read at

nativeVars == <<token_address, native_out>>
chainVars  == <<chain_value, chain_case, chain_out>>
blockVars  == <<chain_ts, target_ts, fb_out>>
runVars    == <<configured, use_manual_chain, manual_chain, chain_col,
               token_col, validation_mode, explicit_blk, utc_ts, df_chain,
               chain_ids, pc, res, nodes, fb_cache, dec_cache, log>>
vars == <<nativeVars, chainVars, blockVars, runVars>>

(***************************************************************************)
(* Python values and string helpers                                        *)
(***************************************************************************)
None == <<>>
Some(v) == <<v>>

UpperChars == <<"A","B","C","D","E","F","G","H","I","J","K","L","M",
                "N","O","P","Q","R","S","T","U","V","W","X","Y","Z">>
LowerChars == <<"a","b","c","d","e","f","g","h","i","j","k","l","m",
                "n","o","p","q","r","s","t","u","v","w","x","y","z">>
Whitespace == {" ", "\t"}
HexDigits  == {"0","1","2","3","4","5","6","7","8","9",
               "a","b","c","d","e","f"}

\* str.lower() on one character
LowerChar(c) ==
    IF \E k \in 1..26 : UpperChars[k] = c
    THEN LowerChars[CHOOSE k \in 1..26 : UpperChars[k] = c]
    ELSE c

\* str.upper() on one character
UpperChar(c) ==
    IF \E k \in 1..26 : LowerChars[k] = c
    THEN UpperChars[CHOOSE k \in 1..26 : LowerChars[k] = c]
    ELSE c

\* str.lower()
Lower(s) == [k \in 1..Len(s) |-> LowerChar(s[k])]

\* str.upper()
Upper(s) == [k \in 1..Len(s) |-> UpperChar(s[k])]

RECURSIVE LStrip(_)
\* str.lstrip()
LStrip(s) ==
    IF s # <<>> /\ Head(s) \in Whitespace THEN LStrip(Tail(s)) ELSE s

RECURSIVE RStrip(_)
\* str.rstrip()
RStrip(s) ==
    IF s # <<>> /\ s[Len(s)] \in Whitespace
    THEN RStrip(SubSeq(s, 1, Len(s) - 1))
    ELSE s

\* str.strip()
Strip(s) == RStrip(LStrip(s))

\* s.startswith(p)
StartsWith(s, p) == Len(s) >= Len(p) /\ SubSeq(s, 1, Len(p)) = p

RECURSIVE Remove(_, _)
\* s.replace(c, '') for a one-character c
Remove(s, c) ==
    IF s = <<>> THEN <<>>
    ELSE IF Head(s) = c THEN Remove(Tail(s), c)
    ELSE <<Head(s)>> \o Remove(Tail(s), c)

\* s.replace(c, d) for one-character c and d
Replace(s, c, d) == [k \in 1..Len(s) |-> IF s[k] = c THEN d ELSE s[k]]

\* n copies of the character c
Rep(c, n) == [k \in 1..n |-> c]

\* abs()
Abs(x) == IF x < 0 THEN -x ELSE x

(***************************************************************************)
(* _is_native                                                              *)
(***************************************************************************)
\* The literals of line 70.
NativeLiterals ==
    { <<>>, <<"n","/","a">>, <<"n","a">>, <<"n","o","n","e">>,
      <<"n","a","n">> }

\* len(s) != 42 on line 73
ADDR_LEN == 42

\* int(s, 16) does not raise, for a stripped s that starts with "0x":
\* after the base prefix Python accepts hexadecimal digits with single
\* underscores between digits or right after the prefix.
IntBase16Parses(s) ==
    LET body == SubSeq(s, 3, Len(s)) IN
    /\ Len(body) > 0
    /\ \A k \in 1..Len(body) : body[k] \in HexDigits \cup {"_"}
    /\ body[Len(body)] # "_"
    /\ \A k \in 1..(Len(body) - 1) : ~(body[k] = "_" /\ body[k+1] = "_")

\* _is_native(token_address)
_is_native(tok) ==
    IF tok = None THEN TRUE
    ELSE LET s == Lower(Strip(tok[1])) IN
         IF s \in NativeLiterals THEN TRUE
         ELSE IF ~StartsWith(s, <<"0","x">>) THEN TRUE
         ELSE IF Len(s) # ADDR_LEN THEN TRUE
         ELSE IF ~IntBase16Parses(s) THEN TRUE
         ELSE FALSE

(***************************************************************************)
(* CHAIN_CONFIG and identify_chain                                         *)
(***************************************************************************)
\* The keys of CHAIN_CONFIG in dictionary order.
CHAIN_KEYS == <<"AVAX", "ETH", "ARB", "BASE">>

KeySet == { CHAIN_KEYS[k] : k \in 1..Len(CHAIN_KEYS) }

\* config["aliases"]
Aliases(key) ==
    CASE key = "AVAX" ->
           << <<"a","v","a","x">>,
              <<"a","v","a","l","a","n","c","h","e">>,
              <<"a","v","a","x","-","c">>,
              <<"a","v","a","l","a","n","c","h","e"," ","c","-","c","h","a","i","n">>,
              <<"a","v","a","l","a","n","c","h","e"," ","c"," ","c","h","a","i","n">> >>
      [] key = "ETH" ->
           << <<"e","t","h">>,
              <<"e","t","h","e","r","e","u","m">>,
              <<"e","t","h","e","r","e","u","m"," ","m","a","i","n","n","e","t">>,
              <<"m","a","i","n","n","e","t">> >>
      [] key = "ARB" ->
           << <<"a","r","b">>,
              <<"a","r","b","i","t","r","u","m">>,
              <<"a","r","b","i","t","r","u","m"," ","o","n","e">>,
              <<"a","r","b","1">> >>
      [] key = "BASE" ->
           << <<"b","a","s","e">>,
              <<"b","a","s","e"," ","m","a","i","n","n","e","t">> >>

\* config["name"]
ChainName(key) ==
    CASE key = "AVAX" -> "Avalanche C-Chain"
      [] key = "ETH"  -> "Ethereum Mainnet"
      [] key = "ARB"  -> "Arbitrum One"
      [] key = "BASE" -> "Base"

\* config["native_token"]
NativeToken(key) ==
    CASE key = "AVAX" -> "AVAX"
      [] key = "ETH"  -> "ETH"
      [] key = "ARB"  -> "ETH"
      [] key = "BASE" -> "ETH"

\* chain_str in config["aliases"]
InAliases(s, key) == \E k \in 1..Len(Aliases(key)) : Aliases(key)[k] = s

RECURSIVE FirstMatch(_, _)
\* the for loop of lines 107-111 from position k of CHAIN_CONFIG
FirstMatch(s, k) ==
    IF k > Len(CHAIN_KEYS) THEN None
    ELSE IF InAliases(s, CHAIN_KEYS[k]) THEN Some(CHAIN_KEYS[k])
    ELSE FirstMatch(s, k + 1)

\* A plausible fault: the label is trimmed but not lower-cased.
IdentifyChainNoLower(v) ==
    IF v = None \/ v[1] = <<>> THEN None
    ELSE FirstMatch(Strip(v[1]), 1)

\* identify_chain(chain_value); a missing cell (None or NaN) is None
identify_chain(v) ==
    IF v = None \/ v[1] = <<>> THEN None
    ELSE FirstMatch(Lower(Strip(v[1])), 1)

(***************************************************************************)
(* find_block_by_timestamp                                                 *)
(***************************************************************************)
\* max_iterations of line 140
MAX_ITERATIONS == 100
\* the tolerance of line 153, in seconds
TOLERANCE == 15

\* w3.eth.get_block(b).timestamp on a node whose blocks are ts
BlockTs(ts, b) == ts[b + 1]
\* w3.eth.block_number
LatestBlock(ts) == Len(ts) - 1

RECURSIVE BinarySearchKeepFirst(_, _, _, _, _, _, _)
\* A plausible fault: the best candidate is never updated (lines 148-150).
BinarySearchKeepFirst(ts, target, low, high, closest_block, closest_diff, iterations) ==
    IF ~(low <= high /\ iterations < MAX_ITERATIONS) THEN closest_block
    ELSE
      LET mid      == (low + high) \div 2
          block_ts == BlockTs(ts, mid)
          diff     == Abs(block_ts - target)
      IN  IF diff < TOLERANCE THEN mid
          ELSE IF block_ts < target
               THEN BinarySearchKeepFirst(ts, target, mid + 1, high, closest_block, closest_diff, iterations + 1)
          ELSE IF block_ts > target
               THEN BinarySearchKeepFirst(ts, target, low, mid - 1, closest_block, closest_diff, iterations + 1)
          ELSE mid

RECURSIVE BinarySearch(_, _, _, _, _, _, _)
\* the while loop of lines 142-163 and the return of line 172
BinarySearch(ts, target, low, high, closest_block, closest_diff, iterations) ==
    IF ~(low <= high /\ iterations < MAX_ITERATIONS) THEN closest_block
    ELSE
      LET mid      == (low + high) \div 2
          block_ts == BlockTs(ts, mid)
          diff     == Abs(block_ts - target)
          better   == diff < closest_diff
          cb       == IF better THEN mid  ELSE closest_block
          cd       == IF better THEN diff ELSE closest_diff
      IN  IF diff < TOLERANCE THEN mid
          ELSE IF block_ts < target
               THEN BinarySearch(ts, target, mid + 1, high, cb, cd, iterations + 1)
          ELSE IF block_ts > target
               THEN BinarySearch(ts, target, low, mid - 1, cb, cd, iterations + 1)
          ELSE mid

\* A plausible fault: the search starts from candidate block 0 (line 136)
\* while closest_diff is still the head's difference.
FindBlockFromGenesis(ts, target) ==
    LET latest_block == LatestBlock(ts)
        latest_ts    == BlockTs(ts, latest_block)
    IN  IF target >= latest_ts THEN latest_block
        ELSE IF target < BlockTs(ts, 0) THEN 0
        ELSE BinarySearch(ts, target, 0, latest_block, 0,
                          Abs(latest_ts - target), 0)

\* find_block_by_timestamp(rpc, target_ts) on a node whose blocks are ts,
\* when no RPC call raises
find_block_by_timestamp(ts, target) ==
    LET latest_block == LatestBlock(ts)
        latest_ts    == BlockTs(ts, latest_block)
    IN  IF target >= latest_ts THEN latest_block
        ELSE IF target < BlockTs(ts, 0) THEN 0
        ELSE BinarySearch(ts, target, 0, latest_block, latest_block,
                          Abs(latest_ts - target), 0)

(***************************************************************************)
(* One run of the script: sidebar, upload, chain grouping, per-row loop    *)
(***************************************************************************)
\* Rows of the uploaded sheet.
MaxRows == 2
\* Blocks a node may produce while the run is in progress.
MaxMined == 1

\* The sets of chains that have an RPC URL (never empty: lines 46-48).
ConfiguredChoices == { {"AVAX", "ETH"} }
\* Cells of the chain column.
ChainCells ==
    { None, Some(<<"a","v","a","x">>),
      Some(<<" ","E","t","h","e","r","e","u","m">>),
      Some(<<"a","r","b","1">>),
      Some(<<"m","o","o","n","b","e","a","m">>) }
\* Cells of the wallet column, after str().strip().
Wallets == { <<"0","x","1">>, <<"0","x">> \o Rep("a", 40) }
\* Cells of the token contract column, after str().strip().
TokenCells == { <<"N","/","A">>, <<"0","x">> \o Rep("b", 40) }
\* human_to_decimal of the reported balance cell.
Reported == { None, Some(100) }
\* The as-of instants of Historical mode (inside the chain, in the future).
AsOfInstants == { 25, 100 }
\* explicit_blk of line 229.
ExplicitBlocks == { None, Some(0), Some(2) }
\* Raw balances a node returns.
RawBalances == { 0, 5 }
\* Every node at the start of the run.
StartNode == <<0, 20, 40>>
\* Seconds between blocks produced during the run.
RunGap == 20

\* What the RPC calls made for one row do: whether the block lookup
\* succeeds, whether the balance call succeeds and with what, and what the
\* decimals lookup gives.  A failed call ends the row, so the calls after
\* it are not enumerated.
Envs ==
    { [ rpc_ok |-> FALSE, fetch |-> "ok", raw |-> 0, dec |-> "6" ],
      [ rpc_ok |-> TRUE, fetch |-> "raise", raw |-> 0, dec |-> "6" ] }
    \cup [ rpc_ok : { TRUE }, fetch : { "ok" }, raw : RawBalances,
           dec : { "6", "unavailable", "raise" } ]

\* list(configured_chains.keys())[0]
FirstConfigured(cfg) ==
    CHAIN_KEYS[CHOOSE k \in 1..Len(CHAIN_KEYS) :
                 /\ CHAIN_KEYS[k] \in cfg
                 /\ \A j \in 1..(k - 1) : CHAIN_KEYS[j] \notin cfg]

InitRun ==
    /\ configured \in ConfiguredChoices
    /\ use_manual_chain \in BOOLEAN
    /\ manual_chain \in (IF use_manual_chain
                         THEN { Some(k) : k \in configured } ELSE { None })
    /\ chain_col \in (IF use_manual_chain THEN { TRUE } ELSE BOOLEAN)
    /\ token_col \in BOOLEAN
    /\ validation_mode \in { "Current Balances", "Historical Balances" }
    /\ explicit_blk \in (IF validation_mode = "Historical Balances"
                         THEN ExplicitBlocks ELSE { None })
    /\ utc_ts \in (IF validation_mode = "Historical Balances" /\ explicit_blk = None
                   THEN AsOfInstants ELSE { 25 })
    /\ \E n \in 0..MaxRows :
         df_chain \in [1..n -> IF use_manual_chain THEN { Some(<<"a","r","b","1">>) }
                                ELSE IF chain_col THEN ChainCells ELSE { None }]
    /\ chain_ids = <<>>
    /\ pc = "group"
    /\ res = <<>>
    /\ nodes = [k \in KeySet |-> StartNode]
    /\ fb_cache = {}
    /\ dec_cache = {}
    /\ log = <<>>

RunIdle ==
    /\ configured = {"AVAX"}
    /\ use_manual_chain = FALSE
    /\ manual_chain = None
    /\ chain_col = FALSE
    /\ token_col = FALSE
    /\ validation_mode = "Current Balances"
    /\ explicit_blk = None
    /\ utc_ts = 25
    /\ df_chain = <<>>
    /\ chain_ids = <<>>
    /\ pc = "idle"
    /\ res = <<>>
    /\ nodes = [k \in KeySet |-> StartNode]
    /\ fb_cache = {}
    /\ dec_cache = {}
    /\ log = <<>>

\* Where the script is once `done` rows are processed: in the loop of line
\* 358, or past it at line 415 with the report built.
AfterRow(done) == IF done < Len(df_chain) THEN "loop" ELSE "done"

\* Lines 337-352: fill df['_chain_id'], and stop the script when a chain
\* detected in the data has no RPC URL.
Group ==
    /\ pc = "group"
    /\ IF use_manual_chain
       THEN /\ chain_ids' = [k \in 1..Len(df_chain) |-> manual_chain]
            /\ pc' = AfterRow(0)
       ELSE IF chain_col
       THEN LET ids            == [k \in 1..Len(df_chain) |-> identify_chain(df_chain[k])]
                chains_in_data == { ids[k][1] : k \in { j \in 1..Len(ids) : ids[j] # None } }
                missing_chains == { c \in chains_in_data : c \notin configured }
            IN  /\ chain_ids' = ids
                /\ pc' = IF missing_chains # {} THEN "stopped" ELSE AfterRow(0)
       ELSE /\ chain_ids' = [k \in 1..Len(df_chain) |-> Some(FirstConfigured(configured))]
            /\ pc' = AfterRow(0)
    /\ UNCHANGED <<configured, use_manual_chain, manual_chain, chain_col,
                   token_col, validation_mode, explicit_blk, utc_ts,
                   df_chain, res, nodes, fb_cache, dec_cache, log>>

\* A dict appended on a failure path (lines 367, 386, 391, 400, 405, 412),
\* with the "error" key dropped: a plausible fault.
ErrorResultNoMessage(row, chain, wallet, token, reported, message) ==
    [ row |-> row, chain |-> chain, wallet |-> wallet, token |-> token,
      reported |-> reported, onchain |-> None, delta |-> None,
      error |-> None ]

\* The dict appended on a failure path (lines 367, 386, 391, 400, 405, 412).
ErrorResult(row, chain, wallet, token, reported, message) ==
    [ row |-> row, chain |-> chain, wallet |-> wallet, token |-> token,
      reported |-> reported, onchain |-> None, delta |-> None,
      error |-> Some(message) ]

\* raw / 10 ** exp, kept as the quotient's two operands
Amount(raw, exp) == [ raw |-> raw, exp |-> exp ]

\* The dict appended on success (line 410); it has no "error" key.
OkResult(row, chain, wallet, token, reported, bal) ==
    [ row |-> row, chain |-> chain, wallet |-> wallet, token |-> token,
      reported |-> reported, onchain |-> Some(bal),
      delta |-> IF reported # None
                THEN Some([ bal |-> bal, minus |-> reported[1] ]) ELSE None,
      error |-> None ]

\* `if explicit_blk:` of line 381: None and 0 are both false
ExplicitGiven(blk) == blk # None /\ blk[1] # 0

\* x or y, for an optional string x (line 367, 386, 391, 412)
OrElse(x, y) == IF x = None \/ x[1] = <<>> THEN y ELSE x[1]

\* Lines 374-387: the block number for this row.  Gives whether the step
\* raised, the block, the functions invoked, the RPC methods called and
\* the cache of find_block_by_timestamp afterwards.
BlockStep(key, env) ==
    IF validation_mode = "Current Balances"
    THEN [ raised |-> ~env.rpc_ok, blk |-> LatestBlock(nodes[key]),
           invoked |-> {}, rpc |-> {"eth_blockNumber"}, cache |-> fb_cache ]
    ELSE IF ExplicitGiven(explicit_blk)
    THEN [ raised |-> FALSE, blk |-> explicit_blk[1],
           invoked |-> {}, rpc |-> {}, cache |-> fb_cache ]
    ELSE LET hits == { e \in fb_cache : e.key = key /\ e.ts = utc_ts } IN
         IF hits # {}
         THEN [ raised |-> FALSE, blk |-> (CHOOSE e \in hits : TRUE).blk,
                invoked |-> {"find_block_by_timestamp"}, rpc |-> {},
                cache |-> fb_cache ]
         ELSE IF env.rpc_ok
         THEN LET b == find_block_by_timestamp(nodes[key], utc_ts) IN
              [ raised |-> FALSE, blk |-> b,
                invoked |-> {"find_block_by_timestamp"},
                rpc |-> {"eth_blockNumber", "eth_getBlockByNumber"},
                cache |-> fb_cache \cup { [key |-> key, ts |-> utc_ts, blk |-> b] } ]
         ELSE [ raised |-> TRUE, blk |-> 0,
                invoked |-> {"find_block_by_timestamp"},
                rpc |-> {"eth_blockNumber"}, cache |-> fb_cache ]

\* The body of the loop for row number `row` (lines 359-412).  Gives the
\* dict appended to res, the log entry and both caches afterwards.
RowOutcome(row, chain_id, addr, token_raw, rep, env) ==
    LET quiet == [ invoked |-> {}, rpc |-> {}, blk |-> None ] IN
    IF chain_id = None \/ chain_id[1] \notin configured
    THEN [ result |-> ErrorResult(row,
                        IF chain_id = None THEN "Unknown" ELSE chain_id[1],
                        addr, OrElse(token_raw, "N/A"), rep,
                        "Chain not configured or not recognized"),
           log |-> quiet, fb_cache |-> fb_cache, dec_cache |-> dec_cache ]
    ELSE
    LET key          == chain_id[1]
        name         == ChainName(key)
        native_token == NativeToken(key)
        step         == BlockStep(key, env)
        blk          == step.blk
        seen         == [ invoked |-> step.invoked, rpc |-> step.rpc, blk |-> None ]
    IN
    IF step.raised
    THEN [ result |-> ErrorResult(row, name, addr, OrElse(token_raw, native_token),
                                  rep, "RPC Error"),
           log |-> seen, fb_cache |-> step.cache, dec_cache |-> dec_cache ]
    ELSE IF addr = <<>> \/ Len(addr) < 10
    THEN [ result |-> ErrorResult(row, name, addr, OrElse(token_raw, native_token),
                                  rep, "Invalid or empty wallet address"),
           log |-> seen, fb_cache |-> step.cache, dec_cache |-> dec_cache ]
    ELSE IF _is_native(token_raw)
    THEN LET fetched == [ seen EXCEPT !.invoked = @ \cup {"fetch_native"},
                                      !.rpc = @ \cup {"eth_getBalance"},
                                      !.blk = Some(blk) ]
         IN  IF env.fetch = "raise"
             THEN [ result |-> ErrorResult(row, name, addr, native_token, rep,
                                           "Invalid address format"),
                    log |-> fetched, fb_cache |-> step.cache, dec_cache |-> dec_cache ]
             ELSE [ result |-> OkResult(row, name, addr, native_token, rep,
                                        Amount(env.raw, 18)),
                    log |-> fetched, fb_cache |-> step.cache, dec_cache |-> dec_cache ]
    ELSE LET fetched == [ seen EXCEPT !.invoked = @ \cup {"fetch_erc20"},
                                      !.rpc = @ \cup {"eth_call balanceOf"},
                                      !.blk = Some(blk) ]
             known   == { e \in dec_cache : e.key = key /\ e.token = token_raw[1] }
             decimals == IF known # {} THEN (CHOOSE e \in known : TRUE).decimals
                         ELSE IF env.dec = "6" THEN 6 ELSE 18
             asked   == [ fetched EXCEPT
                            !.invoked = @ \cup {"fetch_token_decimals"},
                            !.rpc = IF known # {} THEN @ ELSE @ \cup {"eth_call decimals"} ]
         IN  IF env.fetch = "raise"
             THEN [ result |-> ErrorResult(row, name, addr, token_raw[1], rep,
                                           "Failed to fetch balance"),
                    log |-> fetched, fb_cache |-> step.cache, dec_cache |-> dec_cache ]
             ELSE IF known = {} /\ env.dec = "raise"
             THEN [ result |-> ErrorResult(row, name, addr, OrElse(token_raw, native_token),
                                           rep, "Error"),
                    log |-> asked, fb_cache |-> step.cache, dec_cache |-> dec_cache ]
             ELSE [ result |-> OkResult(row, name, addr, "TOKEN", rep,
                                        Amount(env.raw, decimals)),
                    log |-> asked, fb_cache |-> step.cache,
                    dec_cache |-> dec_cache \cup
                        { [key |-> key, token |-> token_raw[1], decimals |-> decimals] } ]

\* One iteration of the loop of line 358; after the last row the report is
\* built (line 415).
ProcessRow ==
    /\ pc = "loop"
    /\ Len(res) < Len(df_chain)
    /\ \E addr \in Wallets, rep \in Reported, env \in Envs :
       \E token_raw \in (IF token_col THEN { Some(t) : t \in TokenCells } ELSE { None }) :
       \E o \in { RowOutcome(Len(res) + 1, chain_ids[Len(res) + 1], addr,
                             token_raw, rep, env) } :
         /\ res' = Append(res, o.result)
         /\ log' = Append(log, o.log)
         /\ fb_cache' = o.fb_cache
         /\ dec_cache' = o.dec_cache
         /\ pc' = AfterRow(Len(res) + 1)
    /\ UNCHANGED <<configured, use_manual_chain, manual_chain, chain_col,
                   token_col, validation_mode, explicit_blk, utc_ts,
                   df_chain, chain_ids, nodes>>

\* The keys of the chains the rows of this run are read from.
ChainsInRun ==
    { chain_ids[k][1] : k \in { j \in 1..Len(chain_ids) : chain_ids[j] # None } }
        \cap configured

\* A node the run reads from produces a block between two rows.
Mine ==
    /\ pc = "loop"
    /\ res # <<>>
    /\ \E key \in ChainsInRun :
         /\ \A k \in KeySet : LatestBlock(nodes[k]) < LatestBlock(StartNode) + MaxMined
         /\ nodes' = [nodes EXCEPT ![key] = Append(@, @[Len(@)] + RunGap)]
    /\ UNCHANGED <<configured, use_manual_chain, manual_chain, chain_col,
                   token_col, validation_mode, explicit_blk, utc_ts,
                   df_chain, chain_ids, pc, res, fb_cache, dec_cache, log>>

\* The ttl of line 116 runs out: the cached block numbers are dropped.
ExpireCache ==
    /\ pc = "loop"
    /\ fb_cache # {}
    /\ fb_cache' = {}
    /\ UNCHANGED <<configured, use_manual_chain, manual_chain, chain_col,
                   token_col, validation_mode, explicit_blk, utc_ts,
                   df_chain, chain_ids, pc, res, nodes, dec_cache, log>>

(***************************************************************************)
(* Calls of the three pure functions on enumerated arguments               *)
(***************************************************************************)
\* Token-column cells: text shaped like an address (a prefix, a body of
\* BodyLen characters made of one repeated character around a middle part,
\* trailing text) and the cells that are not addresses at all.
TokenPrefixes == { <<>>, <<"0","x">>, <<"0","X">>, <<" ","0","x">> }
TokenFills    == { "a", "F", "g" }
TokenMiddles  == { <<>>, <<"_">>, <<"_","_">>, <<"G">> }
TokenSuffixes == { <<>>, <<" ">> }
TokenSplits   == { 0, 20 }
BodyLens      == (ADDR_LEN - 3)..(ADDR_LEN - 1)

AddressLikeTokens ==
    { pre \o Rep(f, k) \o mid \o Rep(f, n - k - Len(mid)) \o post :
        pre \in TokenPrefixes, f \in TokenFills, mid \in TokenMiddles,
        post \in TokenSuffixes, k \in TokenSplits, n \in BodyLens }

OtherTokens ==
    { <<>>, <<" "," ">>, <<"N","/","A">>, <<"n","a">>, <<"N","o","n","e">>,
      <<"N","a","N">>, <<"u","s","d","c">>, <<"0","x">> }

TokenInputs ==
    {None} \cup { Some(s) : s \in AddressLikeTokens \cup OtherTokens }

NativeIdle == token_address = None /\ native_out = None

InitIsNative ==
    /\ token_address \in TokenInputs
    /\ native_out = None

\* one call of _is_native
CallIsNative ==
    /\ native_out = None
    /\ native_out' = Some(_is_native(token_address))
    /\ UNCHANGED token_address

\* Ways a chain label differs from an alias.
CasePerts  == { "same", "upper", "capital", "padded", "upper_padded" }
InnerPerts == { "underscored", "unspaced", "split", "spaced" }

Perturb(s, pert) ==
    CASE pert = "same"         -> s
      [] pert = "upper"        -> Upper(s)
      [] pert = "capital"      -> <<UpperChar(Head(s))>> \o Tail(s)
      [] pert = "padded"       -> <<" ">> \o s \o <<"\t", " ">>
      [] pert = "upper_padded" -> <<"\t">> \o Upper(s) \o <<" ">>
      [] pert = "underscored"  -> Replace(s, " ", "_")
      [] pert = "unspaced"     -> Remove(s, " ")
      [] pert = "split"        -> <<Head(s), "_">> \o Tail(s)
      [] pert = "spaced"       -> <<Head(s), " ">> \o Tail(s)

\* Labels that are no chain's alias, and missing cells.
ForeignLabels ==
    << None, Some(<<>>), Some(<<" "," ">>), Some(<<"n","/","a">>),
       Some(<<"n","a","n">>), Some(<<"m","o","o","n","b","e","a","m">>),
       Some(<<"N","o","n","e">>) >>

ChainCases ==
    { [key |-> CHAIN_KEYS[c], idx |-> k, pert |-> p] :
        c \in 1..Len(CHAIN_KEYS), k \in 1..5, p \in CasePerts \cup InnerPerts }
    \cup { [key |-> "", idx |-> k, pert |-> "foreign"] : k \in 1..Len(ForeignLabels) }

LabelOf(c) ==
    IF c.pert = "foreign" THEN ForeignLabels[c.idx]
    ELSE Some(Perturb(Aliases(c.key)[c.idx], c.pert))

NoCase == [key |-> "", idx |-> 0, pert |-> "none"]
ChainIdle == chain_value = None /\ chain_case = NoCase /\ chain_out = None

InitIdentifyChain ==
    /\ chain_case \in { c \in ChainCases :
                          c.pert = "foreign" \/ c.idx <= Len(Aliases(c.key)) }
    /\ chain_value = LabelOf(chain_case)
    /\ chain_out = None

\* one call of identify_chain
CallIdentifyChain ==
    /\ chain_out = None
    /\ chain_out' = Some(identify_chain(chain_value))
    /\ UNCHANGED <<chain_value, chain_case>>

\* Seconds between consecutive blocks of the enumerated nodes.
Gaps == { 0, 10, 15, 40 }
\* The highest block number of the enumerated nodes.
MaxHead == 4

BlockIdle == chain_ts = <<0>> /\ target_ts = None /\ fb_out = 0

\* the node produces a block
MineBlock ==
    /\ target_ts = None
    /\ LatestBlock(chain_ts) < MaxHead
    /\ \E g \in Gaps :
         chain_ts' = Append(chain_ts, chain_ts[Len(chain_ts)] + g)
    /\ target_ts' = None
    /\ fb_out' = 0

\* one call of find_block_by_timestamp
CallFindBlock ==
    /\ target_ts = None
    /\ \E t \in (chain_ts[1] - 1)..(chain_ts[Len(chain_ts)] + 1) :
         /\ target_ts' = Some(t)
         /\ fb_out' = find_block_by_timestamp(chain_ts, t)
    /\ UNCHANGED chain_ts

InitSpecIsNative == InitIsNative /\ ChainIdle /\ BlockIdle /\ RunIdle

NextIsNative == CallIsNative /\ UNCHANGED <<chainVars, blockVars, runVars>>

SpecIsNative == InitSpecIsNative /\ [][NextIsNative]_vars

InitSpecIdentifyChain == InitIdentifyChain /\ NativeIdle /\ BlockIdle /\ RunIdle

NextIdentifyChain == CallIdentifyChain /\ UNCHANGED <<nativeVars, blockVars, runVars>>

SpecIdentifyChain == InitSpecIdentifyChain /\ [][NextIdentifyChain]_vars

InitSpecFindBlock == BlockIdle /\ NativeIdle /\ ChainIdle /\ RunIdle

NextFindBlock ==
    \/ MineBlock /\ UNCHANGED <<nativeVars, chainVars, runVars>>
    \/ CallFindBlock /\ UNCHANGED <<nativeVars, chainVars, runVars>>

SpecFindBlock == InitSpecFindBlock /\ [][NextFindBlock]_vars

Init == InitRun /\ NativeIdle /\ ChainIdle /\ BlockIdle

Next ==
    \/ Group /\ UNCHANGED <<nativeVars, chainVars, blockVars>>
    \/ ProcessRow /\ UNCHANGED <<nativeVars, chainVars, blockVars>>
    \/ Mine /\ UNCHANGED <<nativeVars, chainVars, blockVars>>
    \/ ExpireCache /\ UNCHANGED <<nativeVars, chainVars, blockVars>>

Spec == Init /\ [][Next]_vars

(***************************************************************************)
(* Properties of a run                                                     *)
(***************************************************************************)
\* the script has ended: past the loop, or halted by st.stop()
Ended == pc \in { "done", "stopped" }

\* row k names a supported chain that has no RPC URL
Unconfigured(k) == chain_ids[k] # None /\ chain_ids[k][1] \notin configured

\* row k's chain is usable
Usable(k) == chain_ids[k] # None /\ chain_ids[k][1] \in configured

\* C1: a run over N rows ends with exactly N results, result k for row k.
C1_OneResultPerRow ==
    Ended => /\ Len(res) = Len(df_chain)
             /\ \A k \in 1..Len(res) : res[k].row = k

\* C2: every result appended by the loop has either an on-chain amount and
\* no error, or an error and neither an on-chain amount nor a delta.
C2_AmountXorError ==
    \A k \in 1..Len(res) :
        \/ res[k].onchain # None /\ res[k].error = None
        \/ res[k].onchain = None /\ res[k].delta = None /\ res[k].error # None

\* A run that has appended a row with an amount and a delta, and a row
\* whose token balance could not be fetched.
C2_Witness ==
    \E j, k \in 1..Len(res) :
        /\ res[j].onchain # None /\ res[j].delta # None
        /\ res[k].error = Some("Failed to fetch balance")

\* C3: within one run all rows of one chain are read at one block height.
C3_OneHeightPerChain ==
    \A j, k \in 1..Len(log) :
        (chain_ids[j] = chain_ids[k] /\ log[j].blk # None /\ log[k].blk # None)
            => log[j].blk = log[k].blk

\* C4: in Historical mode with an explicit block number (0 included) no row
\* invokes find_block_by_timestamp and every balance is read at that block.
C4_ExplicitBlockUsed ==
    (validation_mode = "Historical Balances" /\ explicit_blk # None) =>
        \A k \in 1..Len(log) :
            /\ "find_block_by_timestamp" \notin log[k].invoked
            /\ log[k].blk # None => log[k].blk = explicit_blk

\* C5: when the script ends, every row whose label names a supported chain
\* without an RPC URL has a result with an error, and that error differs
\* from the error of every row whose label names no chain.
C5_DistinctChainErrors ==
    (Ended /\ chain_col /\ ~use_manual_chain) =>
        \A k \in 1..Len(df_chain) :
            Unconfigured(k) =>
                /\ k <= Len(res)
                /\ res[k].error # None
                /\ \A j \in 1..Len(res) :
                      chain_ids[j] = None => res[j].error # res[k].error

\* C9: a row whose chain is not usable, or whose wallet address is shorter
\* than 10 characters, gets the chain error or the address error, and no
\* RPC method is called and no resolver is invoked for it.
C9_NoRpcForInvalidRows ==
    \A k \in 1..Len(res) :
        /\ ~Usable(k) =>
              /\ res[k].error = Some("Chain not configured or not recognized")
              /\ log[k].rpc = {} /\ log[k].invoked = {}
        /\ (Usable(k) /\ Len(res[k].wallet) < 10) =>
              /\ res[k].error = Some("Invalid or empty wallet address")
              /\ log[k].rpc = {} /\ log[k].invoked = {}

(***************************************************************************)
(* Properties of find_block_by_timestamp                                   *)
(***************************************************************************)
\* the target lies at or after genesis and before the head timestamp
InRange(ts, t) == ts[1] <= t /\ t < ts[Len(ts)]

StrictlyIncreasing(ts) == \A k \in 1..(Len(ts) - 1) : ts[k] < ts[k + 1]

\* C6 as stated: on one node, for targets t1 < t2 both in range, the block
\* resolved for t1 is not above the block resolved for t2.
C6_BlocksMonotone ==
    (target_ts # None /\ InRange(chain_ts, target_ts[1])) =>
        \A t2 \in (target_ts[1] + 1)..(chain_ts[Len(chain_ts)] - 1) :
            fb_out <= find_block_by_timestamp(chain_ts, t2)

\* C6 amended: for targets t1 < t2 both in range the resolved blocks'
\* timestamps are ordered, and the block numbers themselves are ordered on
\* a node whose block timestamps strictly increase.
C6_TimestampsMonotone ==
    (target_ts # None /\ InRange(chain_ts, target_ts[1])) =>
        \A t2 \in (target_ts[1] + 1)..(chain_ts[Len(chain_ts)] - 1) :
            LET b2 == find_block_by_timestamp(chain_ts, t2) IN
            /\ BlockTs(chain_ts, fb_out) <= BlockTs(chain_ts, b2)
            /\ StrictlyIncreasing(chain_ts) => fb_out <= b2

\* Two in-range targets resolved to blocks in the opposite order.
C6_Witness ==
    /\ target_ts # None
    /\ InRange(chain_ts, target_ts[1])
    /\ \E t2 \in (target_ts[1] + 1)..(chain_ts[Len(chain_ts)] - 1) :
          fb_out > find_block_by_timestamp(chain_ts, t2)

\* C10: for an in-range target the returned block is a block of the node
\* whose timestamp is within the tolerance of the target or is as close to
\* the target as any block's.
C10_ClosestOrTolerated ==
    (target_ts # None /\ InRange(chain_ts, target_ts[1])) =>
        LET t == target_ts[1]
            d == Abs(BlockTs(chain_ts, fb_out) - t)
        IN  /\ fb_out \in 0..LatestBlock(chain_ts)
            /\ \/ d < TOLERANCE
               \/ \A b \in 0..LatestBlock(chain_ts) :
                     d <= Abs(BlockTs(chain_ts, b) - t)

\* An in-range target resolved outside the tolerance to an inner block.
C10_Witness ==
    /\ target_ts # None
    /\ InRange(chain_ts, target_ts[1])
    /\ Abs(BlockTs(chain_ts, fb_out) - target_ts[1]) >= TOLERANCE
    /\ 0 < fb_out /\ fb_out < LatestBlock(chain_ts)

(***************************************************************************)
(* Properties of _is_native                                                *)
(***************************************************************************)
\* "0x" followed by 40 hexadecimal digits, letter case and surrounding
\* blanks aside
WellFormedAddress(s) ==
    LET n == Lower(Strip(s)) IN
    /\ Len(n) = ADDR_LEN
    /\ StartsWith(n, <<"0","x">>)
    /\ \A k \in 3..Len(n) : n[k] \in HexDigits

\* C7 as stated: _is_native is false exactly for "0x" plus 40 hexadecimal
\* digits, and true for None, blanks, the literals and every other string.
C7_NativeUnlessWellFormed ==
    native_out # None =>
        native_out[1] = (token_address = None \/ ~WellFormedAddress(token_address[1]))

(***************************************************************************)
(* Properties of identify_chain                                            *)
(***************************************************************************)
\* trim, lowercase, remove spaces and underscores
Normalize(s) == Remove(Remove(Lower(Strip(s)), " "), "_")

NormalizedMatch(s, key) ==
    \E k \in 1..Len(Aliases(key)) : Normalize(Aliases(key)[k]) = Normalize(s)

\* C8 as stated: the label resolves to the chain whose normalized alias set
\* contains the normalized label (spaces and underscores removed), and to
\* none when there is no such chain or the label is empty or missing.
C8_NormalizedLookup ==
    chain_out # None =>
        IF chain_value # None /\ \E key \in KeySet : NormalizedMatch(chain_value[1], key)
        THEN chain_out[1] # None
             /\ NormalizedMatch(chain_value[1], chain_out[1][1])
        ELSE chain_out[1] = None

\* the label is, character for character, an alias of the chain
LiteralAlias(s, key) == \E k \in 1..Len(Aliases(key)) : Aliases(key)[k] = s

\* C8 amended: a label that differs from an alias only in letter case or
\* surrounding whitespace resolves to the alias's chain; a label that
\* differs from it by inner spaces or underscores resolves to a chain only
\* when the label so written is itself listed as an alias, and to none
\* otherwise; foreign, empty and missing labels resolve to none.
C8_TrimLowerLookup ==
    chain_out # None =>
        /\ chain_case.pert \in CasePerts => chain_out[1] = Some(chain_case.key)
        /\ chain_case.pert \in InnerPerts =>
             IF \E key \in KeySet : LiteralAlias(chain_value[1], key)
             THEN chain_out[1] # None /\ LiteralAlias(chain_value[1], chain_out[1][1])
             ELSE chain_out[1] = None
        /\ chain_case.pert = "foreign" => chain_out[1] = None

\* An alias written with an underscore for its inner space resolved to none.
C8_Witness ==
    /\ chain_out # None
    /\ chain_case.pert = "underscored"
    /\ chain_value[1] # Aliases(chain_case.key)[chain_case.idx]
    /\ chain_out[1] = None

====
